---- MODULE Spec2Model ----
(***************************************************************************)
(* A model of the containers of data_structures_rust.                       *)
(*                                                                         *)
(* avl_tree/src/lib.rs: AvlTree<T: Ord>, an ordered set backed by an AVL    *)
(* tree.  T is modelled by the integers 1..MaxVal under their usual order   *)
(* (the code only ever compares values).  A Tree<T> = Option<Box<Node<T>>>  *)
(* is a tuple: None is <<>>, Some(node) is <<value, height, left, right>>.  *)
(* Box ownership is tree-shaped, so a tree is its value.                    *)
(*                                                                         *)
(* A panic (an unwrap of None, an arithmetic underflow in a debug build)    *)
(* ends the call: the helpers return ok = FALSE and the container goes to   *)
(* status "aborted", after which no call is made.                           *)
(***************************************************************************)
EXTENDS Integers, Sequences, FiniteSets, TLC

\* Bounds of the model.
MaxVal == 7

Values == 1..MaxVal

\* The values inserted while iterators are followed.
IterMaxVal == 4

IterValues == 1..IterMaxVal

\* The iterators followed at a time.
MaxIters == 2

\* The sequences given to from_iter: at most BuildMaxLen values of
\* 1..BuildMaxVal, repetitions included.
BuildMaxVal == 4

BuildMaxLen == 4

BuildValues == 1..BuildMaxVal

\* The nodes handed to rotate and rebalance hold at most ProbeMaxNodes values.
ProbeMaxNodes == 6

\* A LinkedList holds at most ListMaxLen values of 1..ListMaxVal.
ListMaxLen == 3

ListMaxVal == 2

ListValues == 1..ListMaxVal

\* A SkipList has max_level at most SkipMaxLevel and takes at most
\* SkipMaxLen values of 1..SkipMaxVal.
SkipMaxLevel == 2

SkipMaxLen == 3

SkipMaxVal == 2

SkipValues == 1..SkipMaxVal

VARIABLES
    root,       \* AvlTree.root
    length,     \* AvlTree.length
    status,     \* "ok", or "aborted" once a call has panicked
    op,         \* the last public call: [name, arg, ret]
    repeat,     \* "no", or what the call before the last returned when the
                \* last call repeats it (same operation, same argument)
    prevRoot,   \* root before the last call
    prevLength, \* length before the last call
    S,          \* the reference set the calls are run on in parallel
    prevS,      \* S before the last call
    asc,        \* the calls so far are insert(1), insert(2), ..., in this order
    phase,      \* "ins": only inserts of new values so far; "rem": these
                \* followed only by removes of present values; else "mixed"
    iters       \* the Iter values obtained from AvlTree::iter:
                \* [live, stack, out, ended] each, out being the values
                \* next() has yielded and ended whether it returned None
VARIABLES
    built,      \* a call of from_iter: its argument `input`, how many of its
                \* values were also inserted one by one into root (`pos`),
                \* and what the call gave (`state`, `root`, `length`)
    probe,      \* a node handed to Node::rotate or Node::rebalance
    list,       \* a LinkedList, its nodes and the handles on them
    skip        \* a SkipList

avlVars == <<root, length, status, op, repeat, prevRoot, prevLength, S, prevS, asc, phase>>

vars == <<avlVars, iters, built, probe, list, skip>>

(***************************************************************************)
(* Node, Tree, Side                                                        *)
(***************************************************************************)
None == <<>>

Node(v, h, l, r) == <<v, h, l, r>>

value_of(node) == node[1]

height_of(node) == node[2]

Left == "Left"

Right == "Right"

\* impl Not for Side
Not(side) == IF side = Left THEN Right ELSE Left

\* Node::child
child(node, side) == IF side = Left THEN node[3] ELSE node[4]

\* *node.child_mut(side) = t
set_child(node, side, t) ==
    IF side = Left THEN Node(node[1], node[2], t, node[4])
                   ELSE Node(node[1], node[2], node[3], t)

max(a, b) == IF a < b THEN b ELSE a

\* `x as i8` of a usize
as_i8(x) == LET m == x % 256 IN IF m >= 128 THEN m - 256 ELSE m

\* Node::height(side): the cached height of the child, 0 if there is none
height(node, side) ==
    IF child(node, side) = None THEN 0 ELSE height_of(child(node, side))

\* Node::balance_factor
balance_factor(node) ==
    LET left == height(node, Left)
        right == height(node, Right)
    IN IF left < right THEN as_i8(right - left) ELSE 0 - as_i8(left - right)

\* update_height that takes the left child's height only.
update_height_left_only(node) ==
    Node(node[1], 1 + height(node, Left), node[3], node[4])

\* Node::update_height
update_height(node) ==
    Node(node[1], 1 + max(height(node, Left), height(node, Right)), node[3], node[4])

\* The result of a helper that panicked.
Panic == [ok |-> FALSE, tree |-> None, ret |-> FALSE, small |-> None]

Done(t, b) == [ok |-> TRUE, tree |-> t, ret |-> b, small |-> None]

\* rotate with the last assignment on the wrong side:
\* `*self.child_mut(!side) = Some(subtree)`.
rotate_misattached(node, side) ==
    IF child(node, Not(side)) = None THEN Panic
    ELSE LET subtree == child(node, Not(side))
             self1 == update_height(set_child(node, Not(side), child(subtree, side)))
             subtree1 == set_child(subtree, side, None)
         IN Done(update_height(set_child(subtree1, Not(side), self1)), FALSE)

\* rotate without the first `self.update_height()`.
rotate_stale_height(node, side) ==
    IF child(node, Not(side)) = None THEN Panic
    ELSE LET subtree == child(node, Not(side))
             self1 == set_child(node, Not(side), child(subtree, side))
             subtree1 == set_child(subtree, side, None)
         IN Done(update_height(set_child(subtree1, side, self1)), FALSE)

\* Node::rotate(side).  After the swap `self` is the former child and the box
\* `subtree` holds the original node.
rotate(node, side) ==
    IF child(node, Not(side)) = None THEN Panic
    ELSE LET subtree == child(node, Not(side))
             self1 == update_height(set_child(node, Not(side), child(subtree, side)))
             subtree1 == set_child(subtree, side, None)
         IN Done(update_height(set_child(subtree1, side, self1)), FALSE)

\* The pairs (side, balance factor of the heavy child) for which
\* Node::rebalance rotates the heavy child first (lib.rs line 230).
double_rotation(side, bf) ==
    (side = Left /\ bf = 1) \/ (side = Right /\ bf = 1)

\* `IF r panicked THEN panic ELSE rotate(self with r in place of the heavy
\* child, !side)`: the end of Node::rebalance after `subtree.rotate(side)`.
then_rotate(self0, side, r) ==
    IF ~r.ok THEN Panic ELSE rotate(set_child(self0, side, r.tree), Not(side))

\* Node::rebalance
rebalance(node) ==
    LET self0 == update_height(node)
        bf == balance_factor(self0)
        side == IF bf = -2 THEN Left ELSE Right
        subtree == child(self0, side)
    IN IF bf # -2 /\ bf # 2 THEN Done(self0, FALSE)
       ELSE IF subtree = None THEN Panic
       ELSE IF double_rotation(side, balance_factor(subtree))
       THEN then_rotate(self0, side, rotate(subtree, side))
       ELSE rotate(self0, Not(side))

(***************************************************************************)
(* The recursive free functions on a tree slot                             *)
(***************************************************************************)
RECURSIVE insert(_, _)
RECURSIVE remove(_, _)
RECURSIVE take_min(_)

\* A function that ends `node.rebalance(); true`, or `Some(merge(..)); return
\* true`: b is the result of the rebalance or of the merge.
returning_true(b) == IF b.ok THEN Done(b.tree, TRUE) ELSE Panic

\* The unwind of insert and remove at a node whose child slot `side` the
\* recursive call r worked on: `if inserted { node.rebalance(); } inserted`.
unwind(tree, side, r) ==
    IF ~r.ok THEN Panic
    ELSE IF r.ret THEN returning_true(rebalance(set_child(tree, side, r.tree)))
    ELSE Done(set_child(tree, side, r.tree), FALSE)

\* insert with `Ordering::Equal => true`.
insert_equal_true(tree, value) ==
    IF tree = None THEN Done(Node(value, 1, None, None), TRUE)
    ELSE IF value = value_of(tree) THEN Done(tree, TRUE)
    ELSE IF value < value_of(tree)
    THEN unwind(tree, Left, insert(child(tree, Left), value))
    ELSE unwind(tree, Right, insert(child(tree, Right), value))

\* fn insert(tree, value) -> bool
insert(tree, value) ==
    IF tree = None THEN Done(Node(value, 1, None, None), TRUE)
    ELSE IF value = value_of(tree) THEN Done(tree, FALSE)
    ELSE IF value < value_of(tree)
    THEN unwind(tree, Left, insert(child(tree, Left), value))
    ELSE unwind(tree, Right, insert(child(tree, Right), value))

\* The first branch of take_min: b is the result of `node.rebalance()`, small
\* the minimum that the recursive call detached.
with_small(b, small) ==
    IF b.ok THEN [ok |-> TRUE, tree |-> b.tree, ret |-> FALSE, small |-> small]
    ELSE Panic

\* take_min at a node, r being the result of take_min(&mut node.left).
take_min_at(tree, r) ==
    IF ~r.ok THEN Panic
    ELSE IF r.small # None
    THEN with_small(rebalance(set_child(tree, Left, r.tree)), r.small)
    ELSE [ok |-> TRUE, tree |-> child(tree, Right), ret |-> FALSE,
          small |-> set_child(set_child(tree, Left, r.tree), Right, None)]

\* fn take_min(tree) -> Tree: small is the detached minimum node
take_min(tree) ==
    IF tree = None THEN Done(None, FALSE)
    ELSE take_min_at(tree, take_min(child(tree, Left)))

\* merge after `take_min(&mut op_right)` gave m: the unwrap, the two
\* assignments and the rebalance.
merge_root(left, m) ==
    IF ~m.ok \/ m.small = None THEN Panic
    ELSE rebalance(set_child(set_child(m.small, Left, left), Right, m.tree))

\* fn merge(left, right) -> Box<Node>
merge(left, right) == merge_root(left, take_min(right))

\* remove answering true at an empty slot.
remove_empty_true(tree, value) ==
    IF tree = None THEN Done(None, TRUE)
    ELSE IF value = value_of(tree)
    THEN IF child(tree, Left) = None /\ child(tree, Right) = None THEN Done(None, TRUE)
         ELSE IF child(tree, Right) = None THEN Done(child(tree, Left), TRUE)
         ELSE IF child(tree, Left) = None THEN Done(child(tree, Right), TRUE)
         ELSE returning_true(merge(child(tree, Left), child(tree, Right)))
    ELSE IF value < value_of(tree)
    THEN unwind(tree, Left, remove(child(tree, Left), value))
    ELSE unwind(tree, Right, remove(child(tree, Right), value))

\* fn remove(tree, value) -> bool
remove(tree, value) ==
    IF tree = None THEN Done(None, FALSE)
    ELSE IF value = value_of(tree)
    THEN IF child(tree, Left) = None /\ child(tree, Right) = None THEN Done(None, TRUE)
         ELSE IF child(tree, Right) = None THEN Done(child(tree, Left), TRUE)
         ELSE IF child(tree, Left) = None THEN Done(child(tree, Right), TRUE)
         ELSE returning_true(merge(child(tree, Left), child(tree, Right)))
    ELSE IF value < value_of(tree)
    THEN unwind(tree, Left, remove(child(tree, Left), value))
    ELSE unwind(tree, Right, remove(child(tree, Right), value))

\* AvlTree::contains: the iterative descent from the root
RECURSIVE contains(_, _)
contains(tree, value) ==
    IF tree = None THEN FALSE
    ELSE IF value = value_of(tree) THEN TRUE
    ELSE IF value < value_of(tree) THEN contains(child(tree, Left), value)
    ELSE contains(child(tree, Right), value)

\* AvlTree::is_empty
is_empty == length = 0

(***************************************************************************)
(* NodeIter and Iter: the stack is a Vec of node references, its top last  *)
(***************************************************************************)
\* `while let Some(node) = child { stack.push(node); child = &node.left; }`
RECURSIVE push_left_spine(_, _)
push_left_spine(stack, tree) ==
    IF tree = None THEN stack
    ELSE push_left_spine(Append(stack, tree), child(tree, Left))

\* AvlTree::node_iter
node_iter(tree) == push_left_spine(<<>>, tree)

\* NodeIter::next that pushes the right child only, not its left spine.
NodeIter_next_no_spine(stack) ==
    IF stack = <<>> THEN [stack |-> stack, item |-> None]
    ELSE [stack |-> IF child(stack[Len(stack)], Right) = None
                    THEN SubSeq(stack, 1, Len(stack) - 1)
                    ELSE Append(SubSeq(stack, 1, Len(stack) - 1),
                                child(stack[Len(stack)], Right)),
          item |-> stack[Len(stack)]]

\* NodeIter::next: item is the node popped, None for Option::None
NodeIter_next(stack) ==
    IF stack = <<>> THEN [stack |-> stack, item |-> None]
    ELSE [stack |-> push_left_spine(SubSeq(stack, 1, Len(stack) - 1),
                                    child(stack[Len(stack)], Right)),
          item |-> stack[Len(stack)]]

\* Iter::next: the Option<&T> is <<value>> for Some and <<>> for None
Iter_next(stack) ==
    LET n == NodeIter_next(stack)
    IN [stack |-> n.stack,
        item |-> IF n.item = None THEN <<>> ELSE <<value_of(n.item)>>]

NoIter == [live |-> FALSE, stack |-> <<>>, out |-> <<>>, ended |-> FALSE]

(***************************************************************************)
(* FromIterator: `let mut tree = Self::new(); for value in iter {          *)
(* tree.insert(value); } tree`.  The tree under construction is            *)
(* [ok, root, length], ok being FALSE once an insert panicked.             *)
(***************************************************************************)
\* `tree.insert(value)`, r being what the helper insert gave
insert_into(tree, r) ==
    IF ~r.ok THEN [ok |-> FALSE, root |-> tree.root, length |-> tree.length]
    ELSE [ok |-> TRUE, root |-> r.tree,
          length |-> IF r.ret THEN tree.length + 1 ELSE tree.length]

RECURSIVE from_iter_loop(_, _)
from_iter_loop(tree, values) ==
    IF values = <<>> \/ ~tree.ok THEN tree
    ELSE from_iter_loop(insert_into(tree, insert(tree.root, Head(values))),
                        Tail(values))

\* AvlTree::from_iter
from_iter(values) ==
    from_iter_loop([ok |-> TRUE, root |-> None, length |-> 0], values)

NoBuild == [input |-> <<>>, pos |-> 0, state |-> "idle", root |-> None, length |-> 0]

(***************************************************************************)
(* Node::rebalance seen step by step, and its copy in node.rs              *)
(***************************************************************************)
\* One rotation: of the heavy child ("child") or of the node ("self").
Rotation(at, side) == [at |-> at, side |-> side]

\* The rotations Node::rebalance of lib.rs calls, in the order of the calls;
\* the second is not called when the first panics.
rotations(node) ==
    LET self0 == update_height(node)
        bf == balance_factor(self0)
        side == IF bf = -2 THEN Left ELSE Right
        subtree == child(self0, side)
    IN IF bf # -2 /\ bf # 2 THEN <<>>
       ELSE IF subtree = None THEN <<>>
       ELSE IF double_rotation(side, balance_factor(subtree))
       THEN IF rotate(subtree, side).ok
            THEN <<Rotation("child", side), Rotation("self", Not(side))>>
            ELSE <<Rotation("child", side)>>
       ELSE <<Rotation("self", Not(side))>>

\* node.rs: Node::rotate, the same text as in lib.rs
node_rs_rotate(node, side) ==
    IF child(node, Not(side)) = None THEN Panic
    ELSE LET subtree == child(node, Not(side))
             self1 == update_height(set_child(node, Not(side), child(subtree, side)))
             subtree1 == set_child(subtree, side, None)
         IN Done(update_height(set_child(subtree1, side, self1)), FALSE)

\* node.rs line 70: `(Side::Left, 1) | (Side::Right, -1)`
node_rs_double_rotation(side, bf) ==
    (side = Left /\ bf = 1) \/ (side = Right /\ bf = -1)

node_rs_then_rotate(self0, side, r) ==
    IF ~r.ok THEN Panic ELSE node_rs_rotate(set_child(self0, side, r.tree), Not(side))

\* node.rs: Node::rebalance
node_rs_rebalance(node) ==
    LET self0 == update_height(node)
        bf == balance_factor(self0)
        side == IF bf = -2 THEN Left ELSE Right
        subtree == child(self0, side)
    IN IF bf # -2 /\ bf # 2 THEN Done(self0, FALSE)
       ELSE IF subtree = None THEN Panic
       ELSE IF node_rs_double_rotation(side, balance_factor(subtree))
       THEN node_rs_then_rotate(self0, side, node_rs_rotate(subtree, side))
       ELSE node_rs_rotate(self0, Not(side))

\* The rotations Node::rebalance of node.rs calls.
node_rs_rotations(node) ==
    LET self0 == update_height(node)
        bf == balance_factor(self0)
        side == IF bf = -2 THEN Left ELSE Right
        subtree == child(self0, side)
    IN IF bf # -2 /\ bf # 2 THEN <<>>
       ELSE IF subtree = None THEN <<>>
       ELSE IF node_rs_double_rotation(side, balance_factor(subtree))
       THEN IF node_rs_rotate(subtree, side).ok
            THEN <<Rotation("child", side), Rotation("self", Not(side))>>
            ELSE <<Rotation("child", side)>>
       ELSE <<Rotation("self", Not(side))>>

\* What a call on the probed node gave: whether it was made, whether it
\* returned, the node it left in the slot, and the rotations it called.
NotCalled == [called |-> FALSE, ok |-> TRUE, tree |-> None, rotations |-> <<>>]

Outcome(r, rots) ==
    [called |-> TRUE, ok |-> r.ok, tree |-> r.tree, rotations |-> rots]

NoProbe == [input |-> None, rotated |-> NotCalled, lib |-> NotCalled, node_rs |-> NotCalled]

(***************************************************************************)
(* LinkedList.  The Rc<RefCell<Node>> cells are the entries of `nodes`,    *)
(* a Link is the key of a cell or Null, and the strong count of a cell is  *)
(* the number of Links that hold its key.  A cell is freed when its count  *)
(* reaches 0.                                                              *)
(***************************************************************************)
Null == 0

ListNode(data, next) == [data |-> data, next |-> next]

\* Rc::new: the first key not in use
alloc(nodes) ==
    CHOOSE i \in 1..(Cardinality(DOMAIN nodes) + 1) :
        i \notin DOMAIN nodes /\ \A j \in 1..(i - 1) : j \in DOMAIN nodes

with(nodes, id, node) ==
    [i \in DOMAIN nodes \cup {id} |-> IF i = id THEN node ELSE nodes[i]]

NoListIter == [live |-> FALSE, current |-> Null, out |-> <<>>, ended |-> FALSE]

NoClone == [live |-> FALSE, head |-> Null, tail |-> Null, length |-> 0]

\* LinkedList::new, with no Iter and no clone of it; Q is the sequence the
\* calls made so far describe, op the last call, ret what pop returned
\* (<<>> for None, <<v>> for Some(v)) and front what Q had in front then.
NewList ==
    [nodes |-> <<>>, head |-> Null, tail |-> Null, length |-> 0, status |-> "ok",
     iter |-> NoListIter, clone |-> NoClone,
     Q |-> <<>>, op |-> "new", ret |-> <<>>, front |-> <<>>]

\* The Links held outside the cells: by the list, by the Iter, by the clone.
Handles(l) == <<l.head, l.tail, l.iter.current, l.clone.head, l.clone.tail>>

\* Rc::strong_count of the cell id
strong_count(l, id) ==
    Cardinality({i \in 1..Len(Handles(l)) : Handles(l)[i] = id})
    + Cardinality({i \in DOMAIN l.nodes : l.nodes[i].next = id})

RECURSIVE released(_)
\* The cells left once every cell of strong count 0 is freed.
released(l) ==
    IF \A i \in DOMAIN l.nodes : strong_count(l, i) > 0 THEN l
    ELSE released([l EXCEPT !.nodes =
             [i \in {j \in DOMAIN l.nodes : strong_count(l, j) > 0} |-> l.nodes[i]]])

\* LinkedList::append
append(l, value) ==
    LET new_node == alloc(l.nodes)
        nodes1 == with(l.nodes, new_node, ListNode(value, Null))
    IN [l EXCEPT !.nodes = IF l.tail # Null
                           THEN [nodes1 EXCEPT ![l.tail].next = new_node]
                           ELSE nodes1,
                 !.head = IF l.tail # Null THEN l.head ELSE new_node,
                 !.tail = new_node,
                 !.length = l.length + 1]

\* prepend that leaves the tail of an empty list unset.
prepend_tail_unset(l, value) ==
    LET new_node == alloc(l.nodes)
    IN [l EXCEPT !.nodes = with(l.nodes, new_node, ListNode(value, l.head)),
                 !.length = l.length + 1,
                 !.head = new_node]

\* LinkedList::prepend
prepend(l, value) ==
    LET new_node == alloc(l.nodes)
    IN [l EXCEPT !.nodes = with(l.nodes, new_node,
                                IF l.head # Null THEN ListNode(value, l.head)
                                ELSE ListNode(value, Null)),
                 !.tail = IF l.head # Null THEN l.tail ELSE new_node,
                 !.length = l.length + 1,
                 !.head = new_node]

\* `Rc::try_unwrap(head).ok().unwrap().into_inner().data`: taken is the list
\* once the closure has moved the links, head the cell taken from self.head.
\* try_unwrap gives the node only if no other Link holds the cell.
unwrapped(taken, head) ==
    IF strong_count(taken, head) # 0 THEN [taken EXCEPT !.status = "aborted"]
    ELSE [released(taken) EXCEPT !.ret = <<taken.nodes[head].data>>]

\* LinkedList::pop
pop(l) ==
    IF l.head = Null THEN [l EXCEPT !.ret = <<>>]
    ELSE unwrapped([l EXCEPT !.nodes[l.head].next = Null,
                             !.head = l.nodes[l.head].next,
                             !.tail = IF l.nodes[l.head].next # Null THEN l.tail ELSE Null,
                             !.length = l.length - 1],
                   l.head)

\* LinkedList::iter
list_iter(l) ==
    [l EXCEPT !.iter = [live |-> TRUE, current |-> l.head, out |-> <<>>, ended |-> FALSE]]

\* Iter::next of the list; what it returns is appended to out.
list_iter_next(l) ==
    IF l.iter.current = Null THEN [l EXCEPT !.iter.ended = TRUE]
    ELSE released([l EXCEPT !.iter.out = Append(l.iter.out, l.nodes[l.iter.current].data),
                            !.iter.current = l.nodes[l.iter.current].next])

\* #[derive(Clone)] of LinkedList: the Links are cloned, not the cells
list_clone(l) ==
    [l EXCEPT !.clone = [live |-> TRUE, head |-> l.head, tail |-> l.tail,
                         length |-> l.length]]

(***************************************************************************)
(* SkipList.  A node is known by its id, which is its place in `nodes`; a  *)
(* Link is an id or Null.  Level i of the code is index i + 1 of `next`    *)
(* and of `tails`.                                                         *)
(***************************************************************************)
\* SkipList::new; Q is the data appended so far, op, arg and ret the last
\* call, its argument and what search returned (<<>> for None).
SkipList_new(max_level) ==
    [head |-> Null, tails |-> [i \in 1..(max_level + 1) |-> Null],
     max_level |-> max_level, length |-> 0, nodes |-> <<>>, status |-> "ok",
     Q |-> <<>>, op |-> "new", arg |-> 0, ret |-> <<>>]

\* Node::new(data, vec![None; level], id)
SkipNode(data, level, id) ==
    [data |-> data, next |-> [i \in 1..level |-> Null], id |-> id]

\* `for i in 0..level`: the nodes once the tails of these levels link to
\* the new node
linked(nodes, tails, level, new_node) ==
    [n \in DOMAIN nodes |->
        [nodes[n] EXCEPT !.next =
            [i \in DOMAIN nodes[n].next |->
                IF i <= level /\ tails[i] = n THEN new_node ELSE nodes[n].next[i]]]]

\* SkipList::append, n being what get_level gives (0..max_level, by the
\* coin flips of rand::random)
skip_append(s, data, n) ==
    LET level == 1 + (IF s.head = Null THEN s.max_level ELSE n)
        new_node == s.length + 1
    IN [s EXCEPT !.nodes = Append(linked(s.nodes, s.tails, level, new_node),
                                  SkipNode(data, level, new_node)),
                 !.tails = [i \in DOMAIN s.tails |->
                               IF i <= level THEN new_node ELSE s.tails[i]],
                 !.head = IF s.head = Null THEN new_node ELSE s.head,
                 !.length = s.length + 1]

RECURSIVE start_level_from(_, _)
\* The first loop of search: the highest level at or below start_level where
\* the head has a successor.  At level 0 `start_level -= 1` underflows: a
\* panic in a debug build, and in a release build usize::MAX, which the
\* index next[start_level] rejects with a panic; -1 stands for this abort.
start_level_from(next, start_level) ==
    IF next[start_level + 1] # Null THEN start_level
    ELSE IF start_level = 0 THEN -1
    ELSE start_level_from(next, start_level - 1)

RECURSIVE advance(_, _, _, _)
\* The inner loop of search at one level: follow next[level] while the id
\* of the successor is at most id.
advance(nodes, n, level, id) ==
    IF nodes[n].next[level + 1] # Null /\ nodes[nodes[n].next[level + 1]].id <= id
    THEN advance(nodes, nodes[n].next[level + 1], level, id)
    ELSE n

RECURSIVE descend(_, _, _, _)
\* `for level in (0..=start_level).rev()`: the Option<T> search returns
descend(nodes, n, level, id) ==
    IF level < 0 THEN <<>>
    ELSE LET m == advance(nodes, n, level, id)
         IN IF nodes[m].id = id THEN <<nodes[m].data>>
            ELSE descend(nodes, m, level - 1, id)

\* SkipList::search
skip_search(s, id) ==
    IF s.head = Null THEN [s EXCEPT !.ret = <<>>]
    ELSE LET start_level == start_level_from(s.nodes[s.head].next, s.max_level)
         IN IF start_level < 0 THEN [s EXCEPT !.status = "aborted"]
            ELSE [s EXCEPT !.ret = descend(s.nodes, s.head, start_level, id)]

NoSkip == SkipList_new(0)

(***************************************************************************)
(* The public calls                                                        *)
(***************************************************************************)
\* AvlTree::new, and no Iter yet.
InitAvl ==
    /\ root = None
    /\ length = 0
    /\ status = "ok"
    /\ op = [name |-> "new", arg |-> 0, ret |-> FALSE]
    /\ repeat = "no"
    /\ prevRoot = None
    /\ prevLength = 0
    /\ S = {}
    /\ prevS = {}
    /\ asc = TRUE
    /\ phase = "ins"
    /\ iters = [i \in 1..MaxIters |-> NoIter]

Init ==
    /\ InitAvl
    /\ built = NoBuild
    /\ probe = NoProbe
    /\ list = NewList
    /\ skip = NoSkip

Remember(name, arg) ==
    /\ repeat' = IF op.name # name \/ op.arg # arg THEN "no"
                 ELSE IF op.ret THEN "after true" ELSE "after false"
    /\ prevRoot' = root
    /\ prevLength' = length
    /\ prevS' = S

\* usize::MAX, what 0 - 1 wraps to in a release build.  It stands for
\* 2^64 - 1, which is beyond the integers TLC computes with; no length the
\* model reaches otherwise is negative.
usize_MAX == -1

\* The container after a call `name(v)` whose helper gave r and which left
\* the length at len; ok is FALSE when the call itself panicked.
Return(name, v, r, ok, len) ==
    /\ status' = IF r.ok /\ ok THEN "ok" ELSE "aborted"
    /\ root' = IF r.ok THEN r.tree ELSE root
    /\ length' = IF r.ok /\ ok THEN len ELSE length
    /\ op' = [name |-> name, arg |-> v, ret |-> r.ok /\ ok /\ r.ret]
    /\ Remember(name, v)

\* `self.length += 1` outside the `if inserted`.
incremented_always(r) == length + 1

\* `if inserted { self.length += 1; }`
incremented(r) == IF r.ret THEN length + 1 ELSE length

\* AvlTree::insert
AvlInsert(v) ==
    /\ status = "ok"
    /\ \E r \in {insert(root, v)} : Return("insert", v, r, TRUE, incremented(r))
    /\ S' = S \cup {v}
    /\ asc' = (asc /\ v = Cardinality(S) + 1)
    /\ phase' = IF phase = "ins" /\ v \notin S THEN "ins" ELSE "mixed"

\* `if removed { self.length -= 1; }`: the outcomes [ok, length].  At length
\* 0 the subtraction panics in a debug build and wraps in a release build.
decremented(r) ==
    IF ~r.ok \/ ~r.ret THEN {[ok |-> TRUE, length |-> length]}
    ELSE IF length = 0 THEN {[ok |-> FALSE, length |-> length],
                             [ok |-> TRUE, length |-> usize_MAX]}
    ELSE {[ok |-> TRUE, length |-> length - 1]}

\* AvlTree::remove
AvlRemove(v) ==
    /\ status = "ok"
    /\ \E r \in {remove(root, v)} : \E d \in decremented(r) :
           Return("remove", v, r, d.ok, d.length)
    /\ S' = S \ {v}
    /\ asc' = FALSE
    /\ phase' = IF phase \in {"ins", "rem"} /\ v \in S THEN "rem" ELSE "mixed"

\* AvlTree::contains
AvlContains(v) ==
    /\ status = "ok"
    /\ op' = [name |-> "contains", arg |-> v, ret |-> contains(root, v)]
    /\ Remember("contains", v)
    /\ UNCHANGED <<root, length, status, S, asc, phase>>

\* AvlTree::is_empty
AvlIsEmpty ==
    /\ status = "ok"
    /\ op' = [name |-> "is_empty", arg |-> 0, ret |-> is_empty]
    /\ Remember("is_empty", 0)
    /\ UNCHANGED <<root, length, status, S, asc, phase>>

Next ==
    \/ \E v \in Values : AvlInsert(v) /\ UNCHANGED <<iters, built, probe, list, skip>>
    \/ \E v \in Values : AvlRemove(v) /\ UNCHANGED <<iters, built, probe, list, skip>>
    \/ \E v \in Values : AvlContains(v) /\ UNCHANGED <<iters, built, probe, list, skip>>
    \/ AvlIsEmpty /\ UNCHANGED <<iters, built, probe, list, skip>>

Spec == Init /\ [][Next]_vars

(***************************************************************************)
(* Iteration.  An Iter borrows the tree for as long as it lives, so insert *)
(* and remove are called only while no Iter is live.                       *)
(***************************************************************************)
\* AvlTree::iter
AvlIter(i) ==
    /\ status = "ok"
    /\ ~iters[i].live
    /\ iters' = [iters EXCEPT ![i] = [live |-> TRUE, stack |-> node_iter(root),
                                      out |-> <<>>, ended |-> FALSE]]
    /\ UNCHANGED avlVars

\* Iter::next
IterNext(i) ==
    /\ iters[i].live
    /\ \E n \in {Iter_next(iters[i].stack)} :
           iters' = [iters EXCEPT ![i] = [live |-> TRUE, stack |-> n.stack,
                                          out |-> iters[i].out \o n.item,
                                          ended |-> n.item = <<>>]]
    /\ UNCHANGED avlVars

\* The Iter goes out of scope.
IterDrop(i) ==
    /\ iters[i].live
    /\ iters' = [iters EXCEPT ![i] = NoIter]
    /\ UNCHANGED avlVars

Borrowed == \E i \in 1..MaxIters : iters[i].live

NextIter ==
    \/ \E v \in IterValues :
           ~Borrowed /\ AvlInsert(v) /\ UNCHANGED <<iters, built, probe, list, skip>>
    \/ \E v \in IterValues :
           ~Borrowed /\ AvlRemove(v) /\ UNCHANGED <<iters, built, probe, list, skip>>
    \/ \E i \in 1..MaxIters : AvlIter(i) /\ UNCHANGED <<built, probe, list, skip>>
    \/ \E i \in 1..MaxIters : IterNext(i) /\ UNCHANGED <<built, probe, list, skip>>
    \/ \E i \in 1..MaxIters : IterDrop(i) /\ UNCHANGED <<built, probe, list, skip>>

SpecIter == Init /\ [][NextIter]_vars

(***************************************************************************)
(* from_iter beside one-by-one insertion: the same values go, whole, to    *)
(* from_iter and, one call at a time, into the tree `root` made by new().  *)
(***************************************************************************)
RECURSIVE SeqsUpTo(_, _)
SeqsUpTo(n, values) ==
    IF n = 0 THEN {<<>>}
    ELSE SeqsUpTo(n - 1, values)
         \cup {Append(q, v) : q \in {p \in SeqsUpTo(n - 1, values) : Len(p) = n - 1},
                              v \in values}

InitBuild ==
    /\ InitAvl
    /\ built \in {[input |-> q, pos |-> 0, state |-> "pending",
                   root |-> None, length |-> 0] : q \in SeqsUpTo(BuildMaxLen, BuildValues)}
    /\ probe = NoProbe
    /\ list = NewList
    /\ skip = NoSkip

\* AvlTree::from_iter(built.input)
FromIter ==
    /\ built.state = "pending"
    /\ \E t \in {from_iter(built.input)} :
           built' = [built EXCEPT !.state = IF t.ok THEN "returned" ELSE "aborted",
                                  !.root = t.root, !.length = t.length]
    /\ UNCHANGED <<avlVars, iters, probe, list, skip>>

\* The next value of the same sequence is inserted into root.
InsertOne ==
    /\ built.pos < Len(built.input)
    /\ AvlInsert(built.input[built.pos + 1])
    /\ built' = [built EXCEPT !.pos = built.pos + 1]
    /\ UNCHANGED <<iters, probe, list, skip>>

NextBuild ==
    \/ FromIter
    \/ InsertOne

SpecBuild == InitBuild /\ [][NextBuild]_vars

(***************************************************************************)
(* rotate and rebalance on a node of any shape.  The subtrees of the node  *)
(* have correct cached heights; its own cached height is the one to        *)
(* recompute, so it is either correct or, as after a change below, off by  *)
(* one.  Each call works on its own copy of the node.                      *)
(***************************************************************************)
RECURSIVE SearchTrees(_, _)
\* The search trees that hold exactly lo..hi, cached heights correct.
SearchTrees(lo, hi) ==
    IF lo > hi THEN {None}
    ELSE UNION {{update_height(Node(v, 0, l, r)) : l \in SearchTrees(lo, v - 1),
                                                   r \in SearchTrees(v + 1, hi)}
                : v \in lo..hi}

ProbeNodes ==
    UNION {{Node(t[1], h, t[3], t[4]) : h \in {t[2], t[2] + 1} \cup ({t[2] - 1} \ {0})}
           : t \in UNION {SearchTrees(1, n) : n \in 1..ProbeMaxNodes}}

InitNode ==
    /\ InitAvl
    /\ built = NoBuild
    /\ probe \in {[NoProbe EXCEPT !.input = n] : n \in ProbeNodes}
    /\ list = NewList
    /\ skip = NoSkip

\* Node::rotate(side) of lib.rs
CallRotate(side) ==
    /\ ~probe.rotated.called
    /\ probe' = [probe EXCEPT !.rotated =
                     Outcome(rotate(probe.input, side), <<Rotation("self", side)>>)]
    /\ UNCHANGED <<avlVars, iters, built, list, skip>>

\* Node::rebalance of lib.rs
CallRebalance ==
    /\ ~probe.lib.called
    /\ probe' = [probe EXCEPT !.lib =
                     Outcome(rebalance(probe.input), rotations(probe.input))]
    /\ UNCHANGED <<avlVars, iters, built, list, skip>>

\* Node::rebalance of node.rs
CallNodeRsRebalance ==
    /\ ~probe.node_rs.called
    /\ probe' = [probe EXCEPT !.node_rs =
                     Outcome(node_rs_rebalance(probe.input), node_rs_rotations(probe.input))]
    /\ UNCHANGED <<avlVars, iters, built, list, skip>>

NextNode ==
    \/ \E side \in {Left, Right} : CallRotate(side)
    \/ CallRebalance
    \/ CallNodeRsRebalance

SpecNode == InitNode /\ [][NextNode]_vars

(***************************************************************************)
(* The calls on a LinkedList                                               *)
(***************************************************************************)
ListAppend(v) ==
    /\ list.status = "ok"
    /\ list.length < ListMaxLen
    /\ list' = [append(list, v) EXCEPT !.Q = Append(list.Q, v), !.op = "append"]
    /\ UNCHANGED <<avlVars, iters, built, probe, skip>>

ListPrepend(v) ==
    /\ list.status = "ok"
    /\ list.length < ListMaxLen
    /\ list' = [prepend(list, v) EXCEPT !.Q = <<v>> \o list.Q, !.op = "prepend"]
    /\ UNCHANGED <<avlVars, iters, built, probe, skip>>

ListPop ==
    /\ list.status = "ok"
    /\ list' = [pop(list) EXCEPT
                    !.Q = IF list.Q = <<>> THEN <<>> ELSE Tail(list.Q),
                    !.front = IF list.Q = <<>> THEN <<>> ELSE <<Head(list.Q)>>,
                    !.op = "pop"]
    /\ UNCHANGED <<avlVars, iters, built, probe, skip>>

ListIter ==
    /\ list.status = "ok"
    /\ ~list.iter.live
    /\ list' = list_iter(list)
    /\ UNCHANGED <<avlVars, iters, built, probe, skip>>

\* An Iter kept over appends yields without end; it is followed for
\* ListMaxLen values.
ListIterNext ==
    /\ list.status = "ok"
    /\ list.iter.live
    /\ Len(list.iter.out) <= ListMaxLen
    /\ list' = list_iter_next(list)
    /\ UNCHANGED <<avlVars, iters, built, probe, skip>>

\* The Iter goes out of scope.
ListIterDrop ==
    /\ list.status = "ok"
    /\ list.iter.live
    /\ list' = released([list EXCEPT !.iter = NoListIter])
    /\ UNCHANGED <<avlVars, iters, built, probe, skip>>

ListClone ==
    /\ list.status = "ok"
    /\ ~list.clone.live
    /\ list' = list_clone(list)
    /\ UNCHANGED <<avlVars, iters, built, probe, skip>>

\* The clone goes out of scope.
ListCloneDrop ==
    /\ list.status = "ok"
    /\ list.clone.live
    /\ list' = released([list EXCEPT !.clone = NoClone])
    /\ UNCHANGED <<avlVars, iters, built, probe, skip>>

InitList ==
    /\ InitAvl
    /\ built = NoBuild
    /\ probe = NoProbe
    /\ list = NewList
    /\ skip = NoSkip

\* append, prepend and pop in any order; after any of them an Iter is taken,
\* advanced and let go before the next of them.
NextList ==
    \/ \E v \in ListValues : ~list.iter.live /\ ListAppend(v)
    \/ \E v \in ListValues : ~list.iter.live /\ ListPrepend(v)
    \/ ~list.iter.live /\ ListPop
    \/ ListIter
    \/ ListIterNext
    \/ ListIterDrop

SpecList == InitList /\ [][NextList]_vars

\* Every interleaving of the calls, of the steps of an Iter that outlives
\* them (Iter<T> borrows nothing from the list) and of a clone of the list.
NextShared ==
    \/ \E v \in ListValues : ListAppend(v)
    \/ \E v \in ListValues : ListPrepend(v)
    \/ ListPop
    \/ ListIter
    \/ ListIterNext
    \/ ListIterDrop
    \/ ListClone
    \/ ListCloneDrop

SpecShared == InitList /\ [][NextShared]_vars

(***************************************************************************)
(* The calls on a SkipList                                                 *)
(***************************************************************************)
InitSkip ==
    /\ InitAvl
    /\ built = NoBuild
    /\ probe = NoProbe
    /\ list = NewList
    /\ skip \in {SkipList_new(max_level) : max_level \in 0..SkipMaxLevel}

SkipAppend(data) ==
    /\ skip.status = "ok"
    /\ skip.length < SkipMaxLen
    /\ \E n \in 0..skip.max_level :
           skip' = [skip_append(skip, data, n) EXCEPT
                       !.Q = Append(skip.Q, data), !.op = "append", !.arg = data]
    /\ UNCHANGED <<avlVars, iters, built, probe, list>>

SkipSearch(id) ==
    /\ skip.status = "ok"
    /\ skip' = [skip_search(skip, id) EXCEPT !.op = "search", !.arg = id]
    /\ UNCHANGED <<avlVars, iters, built, probe, list>>

NextSkip ==
    \/ \E data \in SkipValues : SkipAppend(data)
    \/ \E id \in 0..(SkipMaxLen + 1) : SkipSearch(id)

SpecSkip == InitSkip /\ [][NextSkip]_vars

(***************************************************************************)
(* Properties of trees used to state the claims                            *)
(***************************************************************************)
RECURSIVE InOrder(_)
InOrder(t) ==
    IF t = None THEN <<>>
    ELSE InOrder(child(t, Left)) \o <<value_of(t)>> \o InOrder(child(t, Right))

RECURSIVE Count(_)
Count(t) == IF t = None THEN 0 ELSE 1 + Count(child(t, Left)) + Count(child(t, Right))

RECURSIVE TreeValues(_)
TreeValues(t) ==
    IF t = None THEN {}
    ELSE TreeValues(child(t, Left)) \cup {value_of(t)} \cup TreeValues(child(t, Right))

RECURSIVE Subtrees(_)
Subtrees(t) ==
    IF t = None THEN {}
    ELSE {t} \cup Subtrees(child(t, Left)) \cup Subtrees(child(t, Right))

\* The height of a tree by its shape, whatever the nodes cache.
RECURSIVE TrueHeight(_)
TrueHeight(t) ==
    IF t = None THEN 0
    ELSE 1 + max(TrueHeight(child(t, Left)), TrueHeight(child(t, Right)))

StrictlyAscending(s) == \A i \in 1..(Len(s) - 1) : s[i] < s[i + 1]

\* Every node is larger than its left subtree and smaller than its right one.
SearchTree(t) ==
    \A n \in Subtrees(t) :
        /\ \A x \in TreeValues(child(n, Left)) : x < value_of(n)
        /\ \A x \in TreeValues(child(n, Right)) : value_of(n) < x

Balanced(t) ==
    \A n \in Subtrees(t) :
        TrueHeight(child(n, Right)) - TrueHeight(child(n, Left)) \in {-1, 0, 1}

HeightsCached(t) ==
    \A n \in Subtrees(t) :
        height_of(n) = 1 + max(height(n, Left), height(n, Right))

ValidAvl(t) == SearchTree(t) /\ Balanced(t) /\ HeightsCached(t)

TwoChildren(n) == child(n, Left) # None /\ child(n, Right) # None

Minimum(set) == CHOOSE x \in set : \A y \in set : x <= y

RECURSIVE FloorLog2(_)
FloorLog2(n) == IF n <= 1 THEN 0 ELSE 1 + FloorLog2(n \div 2)

Returned == status = "ok"

(***************************************************************************)
(* The claims                                                              *)
(***************************************************************************)

\* C1: after every insert or remove returns, every node reachable from root
\* has a balance factor height(right) - height(left) in {-1, 0, 1}.
BalanceInvariant == Returned => Balanced(root)

\* C2: after any sequence of inserts and removes the in-order traversal is
\* strictly ascending: every node is larger than all of its left subtree and
\* smaller than all of its right subtree.
OrderingInvariant ==
    Returned => StrictlyAscending(InOrder(root)) /\ SearchTree(root)

\* A returned insert that rotated at the root of a tree of five values.
OrderingWitness ==
    /\ Returned /\ op.name = "insert" /\ op.ret
    /\ prevRoot # None /\ value_of(root) # value_of(prevRoot)
    /\ Count(root) >= 5

\* C3: every insert, remove and contains call completes and returns a
\* boolean: no call ends in a panic.
NoAbort == status = "ok"

\* C4: length is the number of nodes reachable from root, it is 0 exactly
\* when root is empty, and is_empty() returns true exactly when the tree
\* holds no value.
LengthAccounting ==
    Returned =>
        /\ length = Count(root)
        /\ (length = 0 <=> root = None)
        /\ (is_empty <=> TreeValues(root) = {})
        /\ (op.name = "is_empty" => (op.ret <=> TreeValues(root) = {}))

\* is_empty() answered true on a tree emptied again by removes.
LengthWitness ==
    /\ Returned /\ op.name = "is_empty" /\ op.ret
    /\ phase = "rem" /\ root = None /\ length = 0

\* C5: against the reference set S: contains(v) is true exactly when v is
\* in S, insert(v) returns true exactly when v was not in S, remove(v)
\* returns true exactly when v was in S.
MembershipRefinement ==
    /\ \A v \in Values : contains(root, v) <=> v \in S
    /\ op.name = "insert" => (op.ret <=> op.arg \notin prevS)
    /\ op.name = "remove" => (op.ret <=> op.arg \in prevS)
    /\ op.name = "contains" => (op.ret <=> op.arg \in S)

\* C6: insert(v) on a tree that contains v returns false and leaves the
\* length and the tree (shape, values, cached heights) as they were.
InsertPresent ==
    (op.name = "insert" /\ contains(prevRoot, op.arg)) =>
        /\ Returned
        /\ ~op.ret
        /\ root = prevRoot
        /\ length = prevLength

\* insert of a value held below the root of a tree of height 3.
InsertPresentWitness ==
    /\ op.name = "insert" /\ contains(prevRoot, op.arg)
    /\ op.arg # value_of(prevRoot)
    /\ TrueHeight(prevRoot) >= 3

\* C7: remove(v) on a tree that does not contain v returns false and leaves
\* length and tree unchanged (on an empty tree: false, length 0); a second
\* remove(v) right after a remove(v) returns false.
RemoveAbsent ==
    /\ (op.name = "remove" /\ ~contains(prevRoot, op.arg)) =>
            /\ Returned
            /\ ~op.ret
            /\ root = prevRoot
            /\ length = prevLength
            /\ (prevRoot = None => length = 0)
    /\ (op.name = "remove" /\ repeat # "no") => (Returned /\ ~op.ret)

\* A second remove(v) right after the remove(v) that took v out of a tree
\* of four values.
RemoveAbsentWitness ==
    /\ op.name = "remove" /\ ~op.ret /\ repeat = "after true"
    /\ Returned /\ root = prevRoot /\ Count(root) >= 3

\* C8: N distinct values inserted in any order and then removed in any
\* order: every insert and every remove returns true, and at the end root is
\* empty and length is 0.
RoundTrip ==
    (phase \in {"ins", "rem"} /\ op.name \in {"insert", "remove"}) =>
        /\ Returned
        /\ op.ret
        /\ ((phase = "rem" /\ S = {}) => (root = None /\ length = 0))

\* C9: inserting 1, 2, ..., n in ascending order: every insert returns true
\* and the root height is floor(log2(n)) + 1 (3 for n = 5).
AscendingHeight ==
    (asc /\ op.name = "insert") =>
        /\ Returned
        /\ op.ret
        /\ root # None
        /\ height_of(root) = FloorLog2(Cardinality(S)) + 1
        /\ TrueHeight(root) = FloorLog2(Cardinality(S)) + 1

\* C10: remove(v) at a node with both children, in a valid AVL tree: the
\* call returns true, the values are the old ones minus v, the replacement
\* subtree is ordered, height-correct and balanced, and the slot holds the
\* smallest value of the former right subtree.  (The last clause is stated
\* where the left subtree is not the taller one: where it is, merge's own
\* rebalance may rotate the merged node away from the slot, as after
\* insert 1, 3, 2, 4 and remove 3, which leaves 2 at the root.)
SuccessorReplaces ==
    (op.name = "remove" /\ ValidAvl(prevRoot)) =>
        \A t \in Subtrees(prevRoot) :
            (value_of(t) = op.arg /\ TwoChildren(t)) =>
                LET r == remove(t, op.arg)
                IN /\ r.ok
                   /\ r.ret
                   /\ r.tree # None
                   /\ TreeValues(r.tree) = TreeValues(t) \ {op.arg}
                   /\ ValidAvl(r.tree)
                   /\ TrueHeight(child(t, Left)) <= TrueHeight(child(t, Right))
                        => value_of(r.tree) = Minimum(TreeValues(child(t, Right)))

\* C11: next() on a fresh iter() yields each stored value once, in strictly
\* ascending order, as the recursive in-order traversal does, and returns
\* None after exactly length values and not before; every Iter does so
\* whatever the other one has consumed.
IterationInOrder ==
    \A i \in 1..MaxIters :
        iters[i].live =>
            /\ Len(iters[i].out) <= Len(InOrder(root))
            /\ iters[i].out = SubSeq(InOrder(root), 1, Len(iters[i].out))
            /\ StrictlyAscending(iters[i].out)
            /\ (iters[i].stack = <<>> <=> Len(iters[i].out) = length)
            /\ (iters[i].ended => iters[i].out = InOrder(root))

\* One Iter has returned None after all four values of a tree of height 3
\* while a second Iter, started on the same tree, has yielded two of them.
IterationWitness ==
    /\ iters[1].live /\ iters[1].ended /\ Len(iters[1].out) = 4
    /\ iters[2].live /\ Len(iters[2].out) = 2
    /\ TrueHeight(root) = 3

\* C12: after every insert or remove returns, every node's cached height is
\* 1 + max of its children's cached heights, an empty child counting 0 (so
\* it is the height of the subtree, and 1 at a leaf).
HeightCache ==
    Returned =>
        /\ HeightsCached(root)
        /\ \A n \in Subtrees(root) : height_of(n) = TrueHeight(n)

\* A returned remove that replaced the root of a tree of height 3 or more.
HeightCacheWitness ==
    /\ Returned /\ op.name = "remove" /\ op.ret
    /\ root # None /\ value_of(root) # value_of(prevRoot)
    /\ TrueHeight(root) >= 3

RECURSIVE Ascending(_)
\* The values of a finite set of integers in ascending order.
Ascending(values) ==
    IF values = {} THEN <<>>
    ELSE LET least == CHOOSE v \in values : \A w \in values : v <= w
         IN <<least>> \o Ascending(values \ {least})

Range(q) == {q[i] : i \in 1..Len(q)}

\* from_iter and the one-by-one insertion of the same values end alike:
\* both abort, or both return and leave the same tree and length.
FromIterAsInserts ==
    (built.state \in {"returned", "aborted"}
        /\ (built.pos = Len(built.input) \/ status = "aborted"))
    => /\ (built.state = "returned") = (status = "ok")
       /\ built.state = "returned" => (built.root = root /\ built.length = length)

\* C13: from_iter over a finite sequence gives the container that inserting
\* its values one by one into new() gives; its length is the number of
\* distinct values of the sequence and its iteration is these values in
\* ascending order.
FromIterRefines ==
    /\ FromIterAsInserts
    /\ built.state # "pending"
        => /\ built.state # "aborted"
           /\ built.length = Cardinality(Range(built.input))
           /\ InOrder(built.root) = Ascending(Range(built.input))

\* The balance factor rebalance computes for the probed node, after
\* `self.update_height()`.
ProbedFactor == balance_factor(update_height(probe.input))

\* The balance factor of the child on the heavy side of the probed node.
HeavyChildFactor ==
    balance_factor(child(probe.input, IF ProbedFactor < 0 THEN Left ELSE Right))

\* C14: rebalance in lib.rs rotates the left child left first exactly when
\* the node's balance factor is -2 and that child's is +1, rotates the right
\* child right first exactly when the node's is +2 and that child's is -1,
\* and in every other case of +-2 only rotates the node away from the heavy
\* side.
DoubleRotationTrigger ==
    (probe.lib.called /\ ProbedFactor \in {-2, 2})
    => probe.lib.rotations =
          IF ProbedFactor = -2
          THEN IF HeavyChildFactor = 1
               THEN <<Rotation("child", Left), Rotation("self", Right)>>
               ELSE <<Rotation("self", Right)>>
          ELSE IF HeavyChildFactor = -1
               THEN <<Rotation("child", Right), Rotation("self", Left)>>
               ELSE <<Rotation("self", Left)>>

\* C15: rebalance on a node whose balance factor has magnitude greater than
\* 2 aborts; it does not return with the node left in place.
ImpossibleImbalanceAborts ==
    (probe.lib.called /\ ProbedFactor \notin -2..2) => ~probe.lib.ok

\* The side of the rotate call made on the probed node.
RotatedSide == probe.rotated.rotations[1].side

\* The child that rotate(RotatedSide) lifts.
Lifted == child(probe.input, Not(RotatedSide))

\* C16: on a node whose child opposite `side` exists, rotate(side) puts that
\* child in the slot, the original node as its `side` child and the child's
\* former `side` subtree as the original node's opposite child; the other
\* subtrees stay, the in-order sequence is the same (nothing lost, nothing
\* twice), and both nodes end with height 1 + max of their children's.
RotationPreserves ==
    (probe.rotated.called /\ Lifted # None)
    => /\ probe.rotated.ok
       /\ value_of(probe.rotated.tree) = value_of(Lifted)
       /\ child(probe.rotated.tree, Not(RotatedSide)) = child(Lifted, Not(RotatedSide))
       /\ value_of(child(probe.rotated.tree, RotatedSide)) = value_of(probe.input)
       /\ child(child(probe.rotated.tree, RotatedSide), RotatedSide)
             = child(probe.input, RotatedSide)
       /\ child(child(probe.rotated.tree, RotatedSide), Not(RotatedSide))
             = child(Lifted, RotatedSide)
       /\ InOrder(probe.rotated.tree) = InOrder(probe.input)
       /\ HeightsCached(probe.rotated.tree)
       /\ height_of(probe.rotated.tree) = TrueHeight(probe.rotated.tree)

\* A left rotation of a node with a stale cached height that moved a
\* non-empty subtree from the lifted child to the original node.
RotationWitness ==
    /\ probe.rotated.called /\ probe.rotated.ok
    /\ RotatedSide = Left
    /\ child(Lifted, Left) # None /\ child(Lifted, Right) # None
    /\ child(probe.input, Left) # None
    /\ height_of(probe.input) # TrueHeight(probe.input)

\* C17: on a node whose subtrees have correct cached heights the rebalance
\* of lib.rs and the rebalance of node.rs call the same rotations, leave the
\* same subtree and abort together.
RebalanceCopiesAgree ==
    (probe.lib.called /\ probe.node_rs.called) => probe.lib = probe.node_rs

RECURSIVE Chain(_, _)
\* The keys of the cells reachable from a Link, in order.
Chain(nodes, link) ==
    IF link = Null THEN <<>> ELSE <<link>> \o Chain(nodes, nodes[link].next)

\* C18: after any sequence of append, prepend and pop the list is the
\* sequence Q these calls describe: pop returned the front of Q (None on an
\* empty Q), iter() yields Q front to back, length is the number of elements
\* of Q, head and tail are empty exactly when Q is, and otherwise tail is the
\* last node reachable from head.
ListRefinesSequence ==
    /\ list.status = "ok"
    /\ list.op = "pop" => list.ret = list.front
    /\ list.length = Len(list.Q)
    /\ (list.head = Null) = (list.Q = <<>>)
    /\ (list.tail = Null) = (list.Q = <<>>)
    /\ [i \in 1..Len(Chain(list.nodes, list.head)) |->
           list.nodes[Chain(list.nodes, list.head)[i]].data] = list.Q
    /\ list.Q # <<>> =>
           list.tail = Chain(list.nodes, list.head)[Len(Chain(list.nodes, list.head))]
    /\ list.iter.live =>
           /\ Len(list.iter.out) <= Len(list.Q)
           /\ list.iter.out = SubSeq(list.Q, 1, Len(list.iter.out))
           /\ (list.iter.current = Null) = (Len(list.iter.out) = Len(list.Q))
           /\ list.iter.ended => list.iter.out = list.Q

\* A pop returned a value and left two, which an Iter then yielded in full.
ListRefinesWitness ==
    /\ list.op = "pop" /\ list.ret # <<>>
    /\ Len(list.Q) = 2
    /\ list.iter.live /\ list.iter.ended

\* C19: pop never aborts, whatever Iter or clone of the list is alive.
PopNeverAborts == list.status = "ok"

\* C20: search(id) returns without abort, with the data of the id-th
\* appended element when 1 <= id <= length and None otherwise, for every
\* max_level, every sequence of appends and every choice of levels.
SearchFindsAppended ==
    /\ skip.status = "ok"
    /\ skip.op = "search" =>
           skip.ret = IF skip.arg \in 1..Len(skip.Q) THEN <<skip.Q[skip.arg]>> ELSE <<>>

====
